---- MODULE Spec2Model ----
(***************************************************************************)
(* A model of nikonrfa/rfa.py: the NikonRFA driver object, its constructor *)
(* and its operations, each as one atomic action.                          *)
(*                                                                         *)
(* Representation.                                                         *)
(*  - A Python str / bytes value is a sequence of one-character strings.   *)
(*  - An attribute that may be missing, and a value that may be None, is a *)
(*    sequence of length 0 (missing / None) or 1 (the value).              *)
(*  - A position in micrometres is an integer number of thousandths of a   *)
(*    micrometre, so n device units are n * 1000 / _units_per_um, and the  *)
(*    float arithmetic of the source is exact rational arithmetic here.    *)
(*  - The device is the environment: the bytes it delivers within the read *)
(*    timeout after a command (a "stream") are chosen nondeterministically.*)
(***************************************************************************)
EXTENDS Integers, Sequences, FiniteSets, TLC

VARIABLES
    phase,                  \* "new" | "ready" | "aborted" | "raised": where __init__ ended
    ser,                    \* "absent" | "closed" | "open": self.ser
    port,                   \* the address self.ser was created with (<<>> is None)
    _line_ending,           \* self._line_ending
    _units_per_um,          \* self._units_per_um: <<>> | <<10>> | <<100>>
    _smallest_um_step,      \* self._smallest_um_step: <<>> | <<n>>
    _pos,                   \* self._pos: <<>> | <<thousandths of um>>
    _moved_since_last_read, \* self._moved_since_last_read: <<>> | <<BOOLEAN>>
    op,                     \* the operation that ran last
    io,                     \* its transport interactions, in order
    log,                    \* the log records it emitted, in order
    ret,                    \* its return value: <<>> (None) | <<n>>
    exc,                    \* "" or the exception that unwound it
    args,                   \* the arguments it was called with
    replies,                \* what each query of it returned: <<>> (None) | <<text>>
    lastRead,               \* history: the value of the last successful position read
    relabelled              \* history: zero or redefine_position stored _pos since then

vars == <<phase, ser, port, _line_ending, _units_per_um, _smallest_um_step, _pos,
          _moved_since_last_read, op, io, log, ret, exc, args, replies, lastRead,
          relabelled>>

(***************************************************************************)
(* Bounds of the model.                                                    *)
(***************************************************************************)
\* device positions -MaxUnits..MaxUnits appear in the replies to WZ
MaxUnits == 2

(***************************************************************************)
(* Python string primitives.                                               *)
(***************************************************************************)
CR == "\r"
LF == "\n"

Digits == <<"0", "1", "2", "3", "4", "5", "6", "7", "8", "9">>

IsDigit(c) == \E i \in 1..10 : Digits[i] = c

DigitVal(c) == (CHOOSE i \in 1..10 : Digits[i] = c) - 1

IsSpace(c) == c \in {" ", "\t", "\n", "\r", "\f"}

RECURSIVE Lstrip(_)
Lstrip(s) == IF s # <<>> /\ IsSpace(Head(s)) THEN Lstrip(Tail(s)) ELSE s

RECURSIVE Rstrip(_)
Rstrip(s) ==
    IF s # <<>> /\ IsSpace(s[Len(s)]) THEN Rstrip(SubSeq(s, 1, Len(s) - 1)) ELSE s

RECURSIVE DigitsVal(_)
DigitsVal(s) ==
    IF s = <<>> THEN 0
    ELSE 10 * DigitsVal(SubSeq(s, 1, Len(s) - 1)) + DigitVal(s[Len(s)])

\* the text of s after int() has stripped whitespace and taken the sign off
Unsigned(s) ==
    LET t == Rstrip(Lstrip(s))
    IN  IF t # <<>> /\ Head(t) \in {"+", "-"} THEN Tail(t) ELSE t

\* int(s) returns (does not raise ValueError)
IsInt(s) ==
    LET d == Unsigned(s)
    IN  d # <<>> /\ \A i \in 1..Len(d) : IsDigit(d[i])

\* int(s) for a str s on which it returns
IntVal(s) ==
    LET t == Rstrip(Lstrip(s))
    IN  IF Head(t) = "-" THEN 0 - DigitsVal(Unsigned(s)) ELSE DigitsVal(Unsigned(s))

RECURSIVE NatStr(_)
NatStr(n) ==
    IF n < 10 THEN <<Digits[n + 1]>>
    ELSE NatStr(n \div 10) \o <<Digits[(n % 10) + 1]>>

\* '{}'.format(n) for an int n
Str(n) == IF n < 0 THEN <<"-">> \o NatStr(0 - n) ELSE NatStr(n)

\* round(a / b) for b > 0: Python 3 rounds halves to the even neighbour
Round(a, b) ==
    LET q == a \div b
        r == a % b
    IN  IF 2 * r < b THEN q
        ELSE IF 2 * r > b THEN q + 1
        ELSE IF q % 2 = 0 THEN q ELSE q + 1

RECURSIVE Split(_, _)
\* s.split(sep) for a one-character sep
Split(s, sep) ==
    IF \A i \in 1..Len(s) : s[i] # sep THEN <<s>>
    ELSE LET k == CHOOSE i \in 1..Len(s) :
                      s[i] = sep /\ \A j \in 1..(i - 1) : s[j] # sep
         IN  <<SubSeq(s, 1, k - 1)>> \o Split(SubSeq(s, k + 1, Len(s)), sep)

(***************************************************************************)
(* The object during a call: its attributes and the call's effects.        *)
(***************************************************************************)
Self ==
    [ser |-> ser, port |-> port, _line_ending |-> _line_ending,
     _units_per_um |-> _units_per_um, _smallest_um_step |-> _smallest_um_step,
     _pos |-> _pos, _moved_since_last_read |-> _moved_since_last_read,
     io |-> <<>>, log |-> <<>>, ret |-> <<>>, exc |-> "",
     reply |-> <<>>, replies |-> <<>>, returned |-> FALSE,
     lastRead |-> lastRead, relabelled |-> relabelled]

Raise(self, e) == [self EXCEPT !.exc = e, !.ret = <<>>]

Log(self, level, msg) ==
    [self EXCEPT !.log = Append(@, [level |-> level, msg |-> msg])]

Ev(k, data) == [k |-> k, data |-> data]

(***************************************************************************)
(* query: reply is <<>> (None, the loop timed out) or <<text>>.            *)
(***************************************************************************)
\* the position of the first terminator byte of the stream, 0 if there is none
FirstCR(stream) ==
    IF \A i \in 1..Len(stream) : stream[i] # CR THEN 0
    ELSE CHOOSE i \in 1..Len(stream) :
             stream[i] = CR /\ \A j \in 1..(i - 1) : stream[j] # CR

\* mutant of Trim: only the prefix is cut, buffer[3:]
Trim_keep_last(buffer) == SubSeq(buffer, 4, Len(buffer))

\* buffer[3:-1]
Trim(buffer) == SubSeq(buffer, 4, Len(buffer) - 1)

query(self, command, stream) ==
    IF self.ser = "absent" THEN Raise(self, "AttributeError")
    ELSE IF self.ser = "closed" THEN Raise(self, "PortNotOpenError")
    ELSE
        LET k == FirstCR(stream)
            sent == self.io \o <<Ev("reset_input_buffer", <<>>),
                                 Ev("write", command \o <<CR>>)>>
        IN  IF k = 0
            THEN [self EXCEPT !.io = sent \o <<Ev("read", stream), Ev("timeout", <<>>)>>,
                              !.reply = <<>>,
                              !.replies = Append(@, <<>>)]
            ELSE [Log(self, "debug", "buffer") EXCEPT
                      !.io = sent \o <<Ev("read", SubSeq(stream, 1, k))>>,
                      !.reply = <<Trim(SubSeq(stream, 1, k - 1))>>,
                      !.replies = Append(@, <<Trim(SubSeq(stream, 1, k - 1))>>)]

(***************************************************************************)
(* Position read and the cached accessor.                                  *)
(***************************************************************************)
WZ == <<"W", "Z">>

\* mutant of get_position: the value read is returned but not stored in _pos
get_position_no_store(self, stream) ==
    LET q == query(self, WZ, stream)
    IN  IF q.exc # "" THEN q
        ELSE IF q.reply = <<>> THEN Raise(q, "TypeError")
        ELSE IF IsInt(q.reply[1]) /\ q._units_per_um # <<>>
        THEN LET p == (IntVal(q.reply[1]) * 1000) \div q._units_per_um[1]
             IN  [q EXCEPT !._moved_since_last_read = <<FALSE>>,
                           !.lastRead = <<p>>,
                           !.relabelled = FALSE,
                           !.ret = <<p>>]
        ELSE [Log(q, "warning", "unexpected message") EXCEPT !.ret = <<>>]

\* mutant of get_position: the device units are stored as micrometres, undivided
get_position_no_divide(self, stream) ==
    LET q == query(self, WZ, stream)
    IN  IF q.exc # "" THEN q
        ELSE IF q.reply = <<>> THEN Raise(q, "TypeError")
        ELSE IF IsInt(q.reply[1]) /\ q._units_per_um # <<>>
        THEN LET p == IntVal(q.reply[1]) * 1000
             IN  [q EXCEPT !._pos = <<p>>,
                           !._moved_since_last_read = <<FALSE>>,
                           !.lastRead = <<p>>,
                           !.relabelled = FALSE,
                           !.ret = <<p>>]
        ELSE [Log(q, "warning", "unexpected message") EXCEPT !.ret = <<>>]

\* mutant of get_position: a reply that does not parse still clears the flag
get_position_clears_on_failure(self, stream) ==
    LET q == query(self, WZ, stream)
    IN  IF q.exc # "" THEN q
        ELSE IF q.reply = <<>> THEN Raise(q, "TypeError")
        ELSE IF IsInt(q.reply[1]) /\ q._units_per_um # <<>>
        THEN LET p == (IntVal(q.reply[1]) * 1000) \div q._units_per_um[1]
             IN  [q EXCEPT !._pos = <<p>>,
                           !._moved_since_last_read = <<FALSE>>,
                           !.lastRead = <<p>>,
                           !.relabelled = FALSE,
                           !.ret = <<p>>]
        ELSE [Log(q, "warning", "unexpected message") EXCEPT
                  !._moved_since_last_read = <<FALSE>>, !.ret = <<>>]

get_position(self, stream) ==
    LET q == query(self, WZ, stream)
    IN  IF q.exc # "" THEN q
        ELSE IF q.reply = <<>> THEN Raise(q, "TypeError")
        ELSE IF IsInt(q.reply[1]) /\ q._units_per_um # <<>>
        THEN LET p == (IntVal(q.reply[1]) * 1000) \div q._units_per_um[1]
             IN  [q EXCEPT !._pos = <<p>>,
                           !._moved_since_last_read = <<FALSE>>,
                           !.lastRead = <<p>>,
                           !.relabelled = FALSE,
                           !.ret = <<p>>]
        ELSE [Log(q, "warning", "unexpected message") EXCEPT !.ret = <<>>]

\* mutant of pos: the device is read whatever the flag says
pos_always_reads(self, stream) ==
    IF self._moved_since_last_read = <<>> THEN Raise(self, "AttributeError")
    ELSE get_position(self, stream)

pos(self, stream) ==
    IF self._moved_since_last_read = <<>> THEN Raise(self, "AttributeError")
    ELSE IF self._moved_since_last_read[1] THEN get_position(self, stream)
    ELSE [self EXCEPT !.ret = self._pos]

(***************************************************************************)
(* Construction.                                                           *)
(***************************************************************************)
WHO == <<"W", "H", "O">>
VERSION == <<"V", "E", "R", "S", "I", "O", "N">>
RESOLUTION == <<"R", "E", "S", "O", "L", "U", "T", "I", "O", "N">>
ENCODER == <<"E", "N", "C", "O", "D", "E", "R">>
ENCODER_ON == ENCODER \o <<" ", "O", "N">>
ENCODER_OFF == ENCODER \o <<" ", "O", "F", "F">>
IDN == <<"R", "e", "m", "o", "t", "e", " ", "F", "o", "c", "u", "s", " ",
         "A", "c", "c", "e", "s", "s", "o", "r", "y", " ", "(", "M", ")">>
HUNDREDTHS == <<"H", "U", "N", "D", "R", "E", "D", "T", "H", "S">>
TENTHS == <<"T", "E", "N", "T", "H", "S">>
OFF == <<"O", "F", "F">>
ON_ == <<"O", "N", " ">>

\* [d.device for d in list_ports.comports() if d.vid==vid and d.pid==pid]
Matches(comports, vid, pid) ==
    LET Hit(d) == d.vid = vid /\ d.pid = pid
        devs == SelectSeq(comports, Hit)
    IN  [i \in 1..Len(devs) |-> devs[i].device]

\* lines 55-73: the attributes set first, then the choice of the port.
\* p, vid, pid are <<>> (None; for vid and pid also any value that is no int) or <<v>>
init_port(self, p, newline, vid, pid, comports) ==
    LET s == [self EXCEPT !._line_ending = newline]
        matches == Matches(comports, vid, pid)
    IN  IF p # <<>> THEN [s EXCEPT !.port = p]
        ELSE IF vid = <<>> \/ pid = <<>>
        THEN Log(s, "error", "vid and pid need to be supplied")
        ELSE IF Len(matches) = 0
        THEN [Log(s, "error", "No match found") EXCEPT !.returned = TRUE]
        ELSE IF Len(matches) > 1
        THEN Log(s, "warning", "Multiple matches found. Using first one")
        ELSE [s EXCEPT !.port = <<matches[1]>>]

\* mutant of init_serial: a port is opened even when none was chosen
init_serial_always_open(self) ==
    [self EXCEPT !.ser = "open",
                 !.io = Append(@, Ev("open", IF self.port = <<>> THEN "" ELSE self.port[1]))]

\* line 74: serial.Serial(port, ...) opens the port unless port is None
init_serial(self) ==
    IF self.port = <<>> THEN [self EXCEPT !.ser = "closed"]
    ELSE [self EXCEPT !.ser = "open", !.io = Append(@, Ev("open", self.port[1]))]

\* mutant of init_identify: VERSION is asked whatever WHO returned
init_identify_always_version(self, sWho, sVer) ==
    LET q == query(self, WHO, sWho)
        v == query(q, VERSION, sVer)
    IN  IF q.exc # "" THEN q
        ELSE IF v.exc # "" THEN v
        ELSE IF q.reply = <<IDN>> THEN Log(v, "info", "Connected")
        ELSE Log(v, "warning", "Device did not identify")

\* lines 75-80
init_identify(self, sWho, sVer) ==
    LET q == query(self, WHO, sWho)
    IN  IF q.exc # "" THEN q
        ELSE IF q.reply = <<IDN>>
        THEN LET v == query(q, VERSION, sVer)
             IN  IF v.exc # "" THEN v ELSE Log(v, "info", "Connected")
        ELSE Log(q, "warning", "Device did not identify")

_get_resolution_info(self, stream) ==
    LET q == query(self, RESOLUTION, stream)
    IN  IF q.exc # "" THEN q
        ELSE IF q.reply = <<>> THEN Raise(q, "AttributeError")
        ELSE LET parts == Split(q.reply[1], " ")
             IN  IF Len(parts) # 2 THEN Raise(q, "ValueError")
                 ELSE LET u == IF parts[2] = HUNDREDTHS THEN <<100>>
                               ELSE IF parts[2] = TENTHS THEN <<10>>
                               ELSE q._units_per_um
                          r == [q EXCEPT !._units_per_um = u]
                      IN  IF ~IsInt(parts[1]) THEN Raise(r, "ValueError")
                          ELSE Log([r EXCEPT !._smallest_um_step = <<IntVal(parts[1])>>],
                                   "info", "Setting smallest_um_step")

\* ret is <<FALSE>>, <<TRUE>> or <<>> (None)
_get_encoder_status(self, stream) ==
    LET q == query(self, ENCODER, stream)
    IN  IF q.exc # "" THEN q
        ELSE IF q.reply = <<OFF>> THEN [q EXCEPT !.ret = <<FALSE>>]
        ELSE IF q.reply = <<ON_>> THEN [q EXCEPT !.ret = <<TRUE>>]
        ELSE [Log(q, "warning", "Unknown response") EXCEPT !.ret = <<>>]

_set_encoder_status(self, status, stream) ==
    LET q == query(self, IF status THEN ENCODER_ON ELSE ENCODER_OFF, stream)
    IN  IF q.exc # "" THEN q
        ELSE [Log(q, "debug", "Setting encoder status") EXCEPT !.ret = <<>>]

\* lines 88-89: "not None" is true as "not False" is
init_encoder(self, sEnc, sEncOn) ==
    LET e == _get_encoder_status(self, sEnc)
    IN  IF e.exc # "" THEN e
        ELSE IF e.ret # <<TRUE>> THEN _set_encoder_status(e, TRUE, sEncOn)
        ELSE e

__init__(self, p, newline, vid, pid, comports, sWho, sVer, sRes, sEnc, sEncOn, sWz) ==
    LET a == init_port(self, p, newline, vid, pid, comports)
        b == init_serial(a)
        c == init_identify(b, sWho, sVer)
        d == IF c.exc # "" THEN c ELSE _get_resolution_info(c, sRes)
        e == IF d.exc # "" THEN d ELSE init_encoder(d, sEnc, sEncOn)
        f == IF e.exc # "" THEN e ELSE get_position(e, sWz)
    IN  IF a.returned THEN a
        ELSE IF f.exc # "" THEN f
        ELSE [f EXCEPT !._moved_since_last_read = <<TRUE>>, !.ret = <<>>]

(***************************************************************************)
(* Moves and relabelling.  um is in thousandths of a micrometre.           *)
(***************************************************************************)
\* int(round(um * self._units_per_um))
Units(self, um) == Round(um * self._units_per_um[1], 1000)

\* query('<token> {}'.format(int(round(um*self._units_per_um))))
query_units(self, token, um, stream) ==
    IF self._units_per_um = <<>> THEN Raise(self, "AttributeError")
    ELSE query(self, token \o <<" ">> \o Str(Units(self, um)), stream)

\* mutant of absmove: the flag is left as it was
absmove_no_mark(self, um, stream) ==
    LET q == query_units(self, <<"M", "Z">>, um, stream)
        w == IF q.reply # <<>> /\ q.reply # <<<<>>>>
             THEN Log(q, "warning", "unexpected message") ELSE q
    IN  IF q.exc # "" THEN q ELSE [w EXCEPT !.ret = <<>>]

absmove(self, um, stream) ==
    LET q == query_units(self, <<"M", "Z">>, um, stream)
        w == IF q.reply # <<>> /\ q.reply # <<<<>>>>
             THEN Log(q, "warning", "unexpected message") ELSE q
    IN  IF q.exc # "" THEN q
        ELSE [w EXCEPT !._moved_since_last_read = <<TRUE>>, !.ret = <<>>]

relmove(self, um, stream) ==
    LET q == query_units(self, <<"R", "Z">>, um, stream)
        w == IF q.reply # <<>> /\ q.reply # <<<<>>>>
             THEN Log(q, "warning", "unexpected message") ELSE q
    IN  IF q.exc # "" THEN q
        ELSE [w EXCEPT !._moved_since_last_read = <<TRUE>>, !.ret = <<>>]

STAGE_DID_NOT_MOVE == "Stage didn't move. Perhaps step too small or out of range."

\* pos_before_move = self.pos; move; if self.pos == pos_before_move: warn;
\* return self.pos -- each self.pos is an evaluation of the property, which
\* reads the device whenever the flag is still set
move_read(self, token, um, sBefore, sMove, sAfter, sReturn) ==
    LET b == pos(self, sBefore)
        m == IF token = <<"M", "Z">> THEN absmove(b, um, sMove) ELSE relmove(b, um, sMove)
        a == pos(m, sAfter)
        w == IF a.ret = b.ret THEN Log(a, "warning", STAGE_DID_NOT_MOVE) ELSE a
    IN  IF b.exc # "" THEN b
        ELSE IF m.exc # "" THEN m
        ELSE IF a.exc # "" THEN a
        ELSE pos(w, sReturn)

absmove_read(self, um, sBefore, sMove, sAfter, sReturn) ==
    move_read(self, <<"M", "Z">>, um, sBefore, sMove, sAfter, sReturn)

relmove_read(self, um, sBefore, sMove, sAfter, sReturn) ==
    move_read(self, <<"R", "Z">>, um, sBefore, sMove, sAfter, sReturn)

\* mutant of halt: the command is sent again when no reply came
halt_retry(self, stream) ==
    LET q == query(Log(self, "debug", "Halting the device"), <<"h", "a", "l", "t">>, stream)
    IN  IF q.exc = "" /\ q.reply = <<>> THEN query(q, <<"h", "a", "l", "t">>, stream) ELSE q

halt(self, stream) ==
    query(Log(self, "debug", "Halting the device"), <<"h", "a", "l", "t">>, stream)

reset(self, stream) ==
    query(Log(self, "debug", "Halting the device"), <<"r", "e", "s", "e", "t">>, stream)

\* mutant of zero: storing the origin also marks the cache as read
zero_clears(self, stream) ==
    LET q == query(Log(self, "debug", "setting the origin"), <<"z", "e", "r", "o">>, stream)
    IN  IF q.exc # "" THEN q
        ELSE [q EXCEPT !._pos = <<0>>, !._moved_since_last_read = <<FALSE>>,
                       !.relabelled = TRUE, !.ret = <<>>]

zero(self, stream) ==
    LET q == query(Log(self, "debug", "setting the origin"), <<"z", "e", "r", "o">>, stream)
    IN  IF q.exc # "" THEN q
        ELSE [q EXCEPT !._pos = <<0>>, !.relabelled = TRUE, !.ret = <<>>]

redefine_position(self, um, stream) ==
    LET q == query_units(Log(self, "debug", "redefining the current position"),
                         <<"H", "Z">>, um, stream)
    IN  IF q.exc # "" THEN q
        ELSE [q EXCEPT !._pos = <<um>>, !.relabelled = TRUE, !.ret = <<>>]

(***************************************************************************)
(* Speed and acceleration.                                                 *)
(***************************************************************************)
SpeedLow == 50
SpeedHigh == 60000
SlopeLow == 1
SlopeHigh == 255

\* reply = self.query(token); return int(reply)
get_int(self, token, stream) ==
    LET q == query(self, token, stream)
    IN  IF q.exc # "" THEN q
        ELSE IF q.reply = <<>> THEN Raise(q, "TypeError")
        ELSE IF ~IsInt(q.reply[1]) THEN Raise(q, "ValueError")
        ELSE [q EXCEPT !.ret = <<IntVal(q.reply[1])>>]

\* mutant of set_int: the upper bound is reported but the value is sent as given
set_int_no_upper_clamp(self, token, v, low, high, lowmsg, highmsg, stream) ==
    LET c == IF v < low THEN Log(self, "warning", lowmsg)
             ELSE IF v > high THEN Log(self, "warning", highmsg)
             ELSE self
        w == IF v < low THEN low ELSE v
        q == query(c, token \o <<" ">> \o Str(w), stream)
    IN  IF q.exc # "" THEN q ELSE [q EXCEPT !.ret = <<>>]

\* the clamp of a setter, then query(token + ' {}'.format(v))
set_int(self, token, v, low, high, lowmsg, highmsg, stream) ==
    LET c == IF v < low THEN Log(self, "warning", lowmsg)
             ELSE IF v > high THEN Log(self, "warning", highmsg)
             ELSE self
        w == IF v < low THEN low ELSE IF v > high THEN high ELSE v
        q == query(c, token \o <<" ">> \o Str(w), stream)
    IN  IF q.exc # "" THEN q ELSE [q EXCEPT !.ret = <<>>]

SPEED == <<"s", "p", "e", "e", "d">>
MINSPEED == <<"m", "i", "n", "s", "p", "e", "e", "d">>
RAMPSLOPE == <<"r", "a", "m", "p", "s", "l", "o", "p", "e">>

maxspeed(self, stream) == get_int(self, SPEED, stream)

maxspeed_setter(self, v, stream) ==
    set_int(self, SPEED, v, SpeedLow, SpeedHigh,
            "minimum speed is 50", "maximum speed is 60000", stream)

minspeed(self, stream) == get_int(self, MINSPEED, stream)

minspeed_setter(self, v, stream) ==
    set_int(self, MINSPEED, v, SpeedLow, SpeedHigh,
            "minimum speed is 50", "maximum speed is 60000", stream)

rampslope(self, stream) == get_int(self, RAMPSLOPE, stream)

rampslope_setter(self, a, stream) ==
    set_int(self, RAMPSLOPE, a, SlopeLow, SlopeHigh,
            "minimum acceleration is 1", "maximum acceleration is  255", stream)

(***************************************************************************)
(* The environment: what the caller passes and what the device delivers.   *)
(***************************************************************************)
PREFIX == <<"0", "0", "1">>

\* a reply line as the wire protocol is described: prefix, payload, terminator
Frame(payload) == PREFIX \o payload \o <<CR>>

\* a reply line with one more character between the payload and the terminator
PadFrame(payload) == PREFIX \o payload \o <<LF, CR>>

\* nothing arrives before the timeout
Silence == <<>>

ERR == <<"E", "R", "R">>

WhoStreams == {PadFrame(IDN), Frame(IDN), Silence}

VersionStreams == {PadFrame(<<"1", ".", "0">>), Silence}

ResolutionStreams ==
    {PadFrame(<<"5", " ">> \o HUNDREDTHS), PadFrame(<<"2", " ">> \o TENTHS),
     PadFrame(<<"3", " ", "T", "H", "I", "R", "D", "S">>), PadFrame(TENTHS),
     PadFrame(<<"X", " ">> \o TENTHS), Silence}

EncoderStreams == {PadFrame(OFF), PadFrame(ON_), PadFrame(ERR), Silence}

AckStreams == {PadFrame(<<>>), PadFrame(ERR), Silence}

WzStreams ==
    {PadFrame(Str(n)) : n \in (0 - MaxUnits)..MaxUnits}
        \cup {Frame(<<"-", "4", "2">>), Frame(<<"5">>), PadFrame(ERR),
              PREFIX \o <<"7">>, Silence}

\* what the device delivers to the WZ reads of a move that reads back
ReadStreams == {PadFrame(<<"0">>), PadFrame(<<"1">>), PadFrame(ERR), Silence}

NumberStreams == {PadFrame(<<"5", "0", "0">>), PadFrame(ERR), Silence}

\* positions the caller asks for, in thousandths of a micrometre
UmInputs == {-150, 5, 250}

SpeedInputs == {10, SpeedLow - 1, SpeedLow, SpeedHigh, SpeedHigh + 1, 999999}

SlopeInputs == {SlopeLow - 1, SlopeLow, SlopeHigh, SlopeHigh + 1, 300}

Newlines == {CR, LF}

Dev(device, vid, pid) == [device |-> device, vid |-> <<vid>>, pid |-> <<pid>>]

\* what list_ports.comports() returns
Comports ==
    {<<>>,
     <<Dev("COM7", 1, 1)>>,
     <<Dev("COM7", 1, 1), Dev("COM3", 6790, 29987)>>,
     <<Dev("COM3", 6790, 29987), Dev("COM7", 1, 1), Dev("COM4", 6790, 29987)>>}

Args(p, newline, vid, pid, comports) ==
    [port |-> p, newline |-> newline, vid |-> vid, pid |-> pid, comports |-> comports]

\* the arguments of the constructor, with what discovery would find:
\* no port and every combination of vid, pid and devices present, or a port
\* (with or without a vid and pid that also match a device)
Configs ==
    {Args(<<>>, newline, vid, pid, comports) :
         newline \in Newlines, vid \in {<<>>, <<6790>>}, pid \in {<<>>, <<29987>>},
         comports \in Comports}
        \cup {Args(<<"COM3">>, newline, <<>>, <<>>, <<>>) : newline \in Newlines}
        \cup {Args(<<"COM3">>, newline, <<6790>>, <<29987>>,
                   <<Dev("COM4", 6790, 29987), Dev("COM3", 6790, 29987)>>) :
                  newline \in Newlines}

(***************************************************************************)
(* The state machine.                                                      *)
(***************************************************************************)
Init ==
    /\ phase = "new"
    /\ ser = "absent"
    /\ port = <<>>
    /\ _line_ending = <<>>
    /\ _units_per_um = <<>>
    /\ _smallest_um_step = <<>>
    /\ _pos = <<>>
    /\ _moved_since_last_read = <<>>
    /\ op = "none"
    /\ io = <<>>
    /\ log = <<>>
    /\ ret = <<>>
    /\ exc = ""
    /\ args = <<>>
    /\ replies = <<>>
    /\ lastRead = <<>>
    /\ relabelled = FALSE

\* the object and the call's effects after the call r of operation name with arguments a
Apply(name, a, r) ==
    /\ ser' = r.ser
    /\ port' = r.port
    /\ _line_ending' = r._line_ending
    /\ _units_per_um' = r._units_per_um
    /\ _smallest_um_step' = r._smallest_um_step
    /\ _pos' = r._pos
    /\ _moved_since_last_read' = r._moved_since_last_read
    /\ op' = name
    /\ io' = r.io
    /\ log' = r.log
    /\ ret' = r.ret
    /\ exc' = r.exc
    /\ args' = a
    /\ replies' = r.replies
    /\ lastRead' = r.lastRead
    /\ relabelled' = r.relabelled

Constructed(c, r) ==
    /\ phase' = IF r.exc # "" THEN "raised"
                ELSE IF r.returned THEN "aborted" ELSE "ready"
    /\ Apply("__init__", c, r)

Construct ==
    /\ phase = "new"
    /\ \E c \in Configs :
         LET a == init_serial(init_port(Self, c.port, c.newline, c.vid, c.pid, c.comports))
         IN  \/ /\ a.returned \/ a.ser # "open"
                /\ Constructed(c, __init__(Self, c.port, c.newline, c.vid, c.pid, c.comports,
                                           Silence, Silence, Silence, Silence, Silence, Silence))
             \/ /\ ~a.returned /\ a.ser = "open"
                /\ \E sWho \in WhoStreams, sVer \in VersionStreams, sRes \in ResolutionStreams,
                      sEnc \in EncoderStreams, sEncOn \in AckStreams, sWz \in WzStreams :
                     Constructed(c, __init__(Self, c.port, c.newline, c.vid, c.pid, c.comports,
                                             sWho, sVer, sRes, sEnc, sEncOn, sWz))

Alive == phase \in {"ready", "aborted"}

Call(name, a, r) == Alive /\ phase' = phase /\ Apply(name, a, r)

GetPosition == \E s \in WzStreams : Call("get_position", <<>>, get_position(Self, s))

Pos == \E s \in WzStreams : Call("pos", <<>>, pos(Self, s))

AbsMove == \E um \in UmInputs, s \in AckStreams : Call("absmove", <<um>>, absmove(Self, um, s))

RelMove == \E um \in UmInputs, s \in AckStreams : Call("relmove", <<um>>, relmove(Self, um, s))

Halt == \E s \in AckStreams : Call("halt", <<>>, halt(Self, s))

Reset == \E s \in AckStreams : Call("reset", <<>>, reset(Self, s))

Zero == \E s \in AckStreams : Call("zero", <<>>, zero(Self, s))

RedefinePosition ==
    \E um \in UmInputs, s \in AckStreams :
        Call("redefine_position", <<um>>, redefine_position(Self, um, s))

MaxSpeedGet == \E s \in NumberStreams : Call("maxspeed", <<>>, maxspeed(Self, s))

MaxSpeedSet ==
    \E v \in SpeedInputs, s \in AckStreams :
        Call("maxspeed.setter", <<v>>, maxspeed_setter(Self, v, s))

MinSpeedGet == \E s \in NumberStreams : Call("minspeed", <<>>, minspeed(Self, s))

MinSpeedSet ==
    \E v \in SpeedInputs, s \in AckStreams :
        Call("minspeed.setter", <<v>>, minspeed_setter(Self, v, s))

RampSlopeGet == \E s \in NumberStreams : Call("rampslope", <<>>, rampslope(Self, s))

RampSlopeSet ==
    \E a \in SlopeInputs, s \in AckStreams :
        Call("rampslope.setter", <<a>>, rampslope_setter(Self, a, s))

Next ==
    \/ Construct
    \/ GetPosition
    \/ Pos
    \/ AbsMove
    \/ RelMove
    \/ Halt
    \/ Reset
    \/ Zero
    \/ RedefinePosition
    \/ MaxSpeedGet
    \/ MaxSpeedSet
    \/ MinSpeedGet
    \/ MinSpeedSet
    \/ RampSlopeGet
    \/ RampSlopeSet

Spec == Init /\ [][Next]_vars

\* construction on a port the caller names and with the default newline, with
\* a device that identifies itself and reports its encoder on
ConstructOnPort ==
    /\ phase = "new"
    /\ \E sRes \in ResolutionStreams, sWz \in ReadStreams :
         LET c == Args(<<"COM3">>, CR, <<>>, <<>>, <<>>)
         IN  Constructed(c, __init__(Self, c.port, c.newline, c.vid, c.pid, c.comports,
                                     PadFrame(IDN), PadFrame(<<"1", ".", "0">>), sRes,
                                     PadFrame(ON_), Silence, sWz))

ReadPosition == \E s \in ReadStreams : Call("get_position", <<>>, get_position(Self, s))

AbsMoveRead ==
    \E um \in UmInputs, sMove \in AckStreams :
        \E sBefore \in ReadStreams, sAfter \in ReadStreams, sReturn \in ReadStreams :
            Call("absmove_read", <<um>>,
                 absmove_read(Self, um, sBefore, sMove, sAfter, sReturn))

RelMoveRead ==
    \E um \in UmInputs, sMove \in AckStreams :
        \E sBefore \in ReadStreams, sAfter \in ReadStreams, sReturn \in ReadStreams :
            Call("relmove_read", <<um>>,
                 relmove_read(Self, um, sBefore, sMove, sAfter, sReturn))

NextRead ==
    \/ ConstructOnPort
    \/ ReadPosition
    \/ AbsMoveRead
    \/ RelMoveRead

\* the moves that read back, on an object built on a named port
SpecRead == Init /\ [][NextRead]_vars

(***************************************************************************)
(* Reading the record of a call.                                           *)
(***************************************************************************)
\* the byte strings the call wrote to the transport, in order
Written(evs) ==
    LET IsWrite(e) == e.k = "write"
        w == SelectSeq(evs, IsWrite)
    IN  [i \in 1..Len(w) |-> w[i].data]

\* a command as query writes it
Cmd(command) == command \o <<CR>>

Wrote(evs, command) == \E i \in 1..Len(evs) : evs[i] = Ev("write", Cmd(command))

Logged(level, msg) == \E i \in 1..Len(log) : log[i] = [level |-> level, msg |-> msg]

IsPrefix(s, t) == Len(s) <= Len(t) /\ SubSeq(t, 1, Len(s)) = s

\* the last query of the call ended on a terminator byte
Terminated(evs) == evs # <<>> /\ evs[Len(evs)].k = "read"

Dirty == _moved_since_last_read = <<TRUE>>

Clean == _moved_since_last_read = <<FALSE>>

(***************************************************************************)
(* C1.                                                                     *)
(***************************************************************************)
\* C1 as stated: in every reachable state of a constructed object, when the
\* dirty flag is false the cached position is the value of the last
\* successful read.
C1_CleanCacheIsLastRead == (phase = "ready" /\ Clean) => _pos = lastRead

\* C1 as amended: when the dirty flag is false and neither zero nor
\* redefine_position has stored a value since the last successful read, the
\* cached position is the value of that read.
C1_CleanCacheIsLastReadUnlessRelabelled ==
    (phase = "ready" /\ Clean /\ ~relabelled) => (lastRead # <<>> /\ _pos = lastRead)

\* a reset has run on a clean cache that no zero or redefine_position touched
C1_Witness == phase = "ready" /\ Clean /\ ~relabelled /\ op = "reset" /\ _pos # <<>>

(***************************************************************************)
(* C2.                                                                     *)
(***************************************************************************)
\* C2: a read of the accessor pos with the dirty flag false returns the cached
\* value, touches the transport in no way (no input-buffer reset, no write,
\* no read) and leaves the cache and the flag as they were.
C2_CleanPosIsCached ==
    [][(op' = "pos" /\ Clean) =>
           /\ ret' = _pos
           /\ io' = <<>>
           /\ exc' = ""
           /\ _pos' = _pos
           /\ _moved_since_last_read' = _moved_since_last_read]_vars

\* pos has returned the cached value without any transport interaction
C2_Witness ==
    op = "pos" /\ io = <<>> /\ exc = "" /\ Clean /\ _pos # <<>> /\ ret = _pos

(***************************************************************************)
(* C3.                                                                     *)
(***************************************************************************)
\* C3 as stated: a read of pos with the dirty flag true sends exactly one WZ,
\* returns the value parsed from the reply, stores it in the cache and leaves
\* the flag false.
C3_DirtyPosAlwaysRefreshes ==
    [][(op' = "pos" /\ Dirty) =>
           /\ Written(io') = <<Cmd(WZ)>>
           /\ ret' # <<>>
           /\ _pos' = ret'
           /\ _moved_since_last_read' = <<FALSE>>]_vars

\* the WZ reply of the call parses as an integer and the unit scale is set
ReadParses(rs, units) == Len(rs) = 1 /\ rs[1] # <<>> /\ IsInt(rs[1][1]) /\ units # <<>>

\* C3 as amended: a read of pos with the dirty flag true sends exactly one WZ
\* and nothing else; when the reply parses as an integer (and the unit scale
\* was set at construction) it returns that integer divided by
\* _units_per_um, stores it in the cache and leaves the flag false; when it
\* does not, nothing is returned or stored and the flag stays true.
C3_DirtyPosRefreshesWhenReplyParses ==
    [][(op' = "pos" /\ Dirty) =>
           /\ Written(io') = <<Cmd(WZ)>>
           /\ ReadParses(replies', _units_per_um) =>
                  /\ exc' = ""
                  /\ ret' = <<(IntVal(replies'[1][1]) * 1000) \div _units_per_um[1]>>
                  /\ _pos' = ret'
                  /\ _moved_since_last_read' = <<FALSE>>
           /\ ~ReadParses(replies', _units_per_um) =>
                  /\ ret' = <<>>
                  /\ _pos' = _pos
                  /\ _moved_since_last_read' = <<TRUE>>]_vars

\* pos has read the device and returned the value it stored
C3_Witness ==
    /\ op = "pos" /\ Written(io) = <<Cmd(WZ)>> /\ exc = ""
    /\ ret # <<>> /\ ret = _pos /\ Clean

(***************************************************************************)
(* C4.                                                                     *)
(***************************************************************************)
\* C4: a call of absmove or relmove that returns leaves the dirty flag true,
\* for every previous flag and every reply (empty, non-empty, none); on a
\* constructed object whose unit scale is set it always returns; it writes no
\* WZ and does not change the cached position.
C4_MoveMarksDirty ==
    [][(op' \in {"absmove", "relmove"}) =>
           /\ _pos' = _pos
           /\ ~Wrote(io', WZ)
           /\ exc' = "" => _moved_since_last_read' = <<TRUE>>
           /\ (phase = "ready" /\ _units_per_um # <<>>) => exc' = ""]_vars

\* a move that got no reply at all has returned and left the flag true
C4_Witness ==
    /\ op \in {"absmove", "relmove"} /\ exc = "" /\ replies = << <<>> >>
    /\ Dirty /\ _pos # <<>>

(***************************************************************************)
(* C5.                                                                     *)
(***************************************************************************)
\* C5: the dirty flag goes from true to false only in a step that is a
\* successful position read: get_position or pos, one WZ written, a reply
\* that parses as an integer, no exception.
C5_OnlyReadClears ==
    [][(Dirty /\ _moved_since_last_read' = <<FALSE>>) =>
           /\ op' \in {"get_position", "pos"}
           /\ Written(io') = <<Cmd(WZ)>>
           /\ ReadParses(replies', _units_per_um)
           /\ exc' = ""]_vars

\* the accessor found the flag true, read the device and cleared the flag
C5_Witness ==
    op = "pos" /\ ReadParses(replies, _units_per_um) /\ Clean /\ Wrote(io, WZ)

(***************************************************************************)
(* C6.                                                                     *)
(***************************************************************************)
\* C6: when construction completes with a successful initial WZ read, the
\* cache holds the value read and is not dirty.
C6_ConstructionSeedsCleanCache ==
    (op = "__init__" /\ phase = "ready" /\ lastRead # <<>>) => (_pos = lastRead /\ Clean)

(***************************************************************************)
(* C7.                                                                     *)
(***************************************************************************)
\* the commands of the handshake up to ENCODER, given what WHO returned
Handshake(rs) ==
    <<WHO>> \o (IF rs[1] = <<IDN>> THEN <<VERSION>> ELSE <<>>) \o <<RESOLUTION, ENCODER>>

\* what ENCODER returned (None when the handshake did not get that far)
EncoderReply(rs) == IF Len(rs) >= Len(Handshake(rs)) THEN rs[Len(Handshake(rs))] ELSE <<>>

\* the whole handshake, with ENCODER ON sent or not
FullHandshake(rs, on) ==
    [i \in 1..(Len(Handshake(rs)) + (IF on THEN 2 ELSE 1)) |->
        Cmd((Handshake(rs) \o (IF on THEN <<ENCODER_ON>> ELSE <<>>) \o <<WZ>>)[i])]

\* the commands of a construction that opened the transport are the
\* handshake in its order, whole when construction completes; a WHO reply
\* other than the device name is reported and RESOLUTION is still sent
HandshakeInOrder(on) ==
    (op = "__init__" /\ ser = "open") =>
        /\ IsPrefix(Written(io), FullHandshake(replies, on))
        /\ phase = "ready" => Written(io) = FullHandshake(replies, on)
        /\ Wrote(io, RESOLUTION)
        /\ replies[1] # <<IDN>> => Logged("warning", "Device did not identify")

\* C7 as stated: WHO, VERSION only if WHO returned the device name,
\* RESOLUTION, ENCODER, ENCODER ON only if the encoder reported off, WZ.
C7_HandshakeOrderOnlyIfOff == HandshakeInOrder(EncoderReply(replies) = <<OFF>>)

\* C7 as amended: WHO, VERSION only if WHO returned the device name,
\* RESOLUTION, ENCODER, ENCODER ON unless the encoder reported on (so also on
\* an unrecognised or missing reply), WZ.
C7_HandshakeOrderUnlessOn == HandshakeInOrder(EncoderReply(replies) # <<ON_>>)

\* construction has completed although the device did not identify, and the
\* encoder was switched on
C7_Witness ==
    /\ op = "__init__" /\ phase = "ready" /\ replies[1] # <<IDN>>
    /\ Wrote(io, ENCODER_ON) /\ Wrote(io, WZ)

(***************************************************************************)
(* C8.                                                                     *)
(***************************************************************************)
\* the constructor was called without a port
NoPort == op = "__init__" /\ args.port = <<>>

UsableIds == args.vid # <<>> /\ args.pid # <<>>

Found == Matches(args.comports, args.vid, args.pid)

\* C8: without a port and with two or more matches, construction warns,
\* opens the transport on the first match and goes on with the handshake.
C8_MultipleMatchesUseFirst ==
    (NoPort /\ UsableIds /\ Len(Found) >= 2) =>
        /\ Logged("warning", "Multiple matches found. Using first one")
        /\ port = <<Found[1]>>
        /\ io # <<>> /\ io[1] = Ev("open", Found[1])
        /\ Wrote(io, WHO)

Line == io[Len(io)].data

\* what the last query returned
Reply == replies[Len(replies)]

\* the last query read a line of three characters, a payload and the terminator
Framed == Terminated(io) /\ Len(Line) >= 4

\* C10 as stated: for a line <3 characters><payload><terminator> query
\* returns the payload, no character of it lost.
C10_FramingKeepsPayload == Framed => Reply = <<SubSeq(Line, 4, Len(Line) - 1)>>

\* C10 as amended: for a line <3 characters><payload><terminator> query
\* returns the payload without its last character (the terminator is never
\* part of the buffer that is cut); the line "001-42\r" yields "-4".
C10_FramingDropsLastCharacter ==
    Framed =>
        /\ Reply = <<SubSeq(Line, 4, Len(Line) - 2)>>
        /\ Line = Frame(<<"-", "4", "2">>) => Reply = << <<"-", "4">> >>

\* the line "001-42\r" has been read
C10_Witness == Framed /\ Line = Frame(<<"-", "4", "2">>) /\ op = "get_position"

(***************************************************************************)
(* C11.                                                                    *)
(***************************************************************************)
\* the last query of the call saw no terminator before the timeout
TimedOut == io # <<>> /\ io[Len(io)].k = "timeout"

\* the bytes that query had accumulated when it timed out
Accumulated == io[Len(io) - 1].data

\* C11: when the timeout elapses before a terminator is seen, query yields
\* the bytes accumulated so far (possibly the empty string) as its result
\* and leaves the transport open.
C11_TimeoutYieldsAccumulated == TimedOut => (Reply = <<Accumulated>> /\ ser = "open")

(***************************************************************************)
(* C12.                                                                    *)
(***************************************************************************)
\* C12: query ends every command it writes with the terminator configured at
\* construction and stops reading at the first occurrence of that terminator.
C12_ConfiguredTerminator ==
    \A i \in 1..Len(io) :
        /\ io[i].k = "write" => io[i].data[Len(io[i].data)] = _line_ending
        /\ (io[i].k = "read" /\ (i = Len(io) \/ io[i + 1].k # "timeout")) =>
               /\ io[i].data[Len(io[i].data)] = _line_ending
               /\ \A j \in 1..(Len(io[i].data) - 1) : io[i].data[j] # _line_ending

(***************************************************************************)
(* C13.                                                                    *)
(***************************************************************************)
Max(a, b) == IF a > b THEN a ELSE b

Min(a, b) == IF a < b THEN a ELSE b

Warnings == Len(SelectSeq(log, LAMBDA r : r.level = "warning"))

\* a setter called with v has sent token and the value c, warned exactly
\* when v differs from c, and returned
SetterSent(name, token, c) ==
    (op = name /\ phase = "ready") =>
        /\ Written(io) = <<Cmd(token \o <<" ">> \o Str(c))>>
        /\ Warnings = (IF args[1] = c THEN 0 ELSE 1)
        /\ exc = ""

\* C13: for every integer v the maxspeed and minspeed setters send
\* max(50, min(60000, v)) and the rampslope setter sends max(1, min(255, v)),
\* with a warning exactly when v is outside the range, and the command is
\* sent in every case.
C13_SettersClamp ==
    /\ SetterSent("maxspeed.setter", SPEED, Max(50, Min(60000, args[1])))
    /\ SetterSent("minspeed.setter", MINSPEED, Max(50, Min(60000, args[1])))
    /\ SetterSent("rampslope.setter", RAMPSLOPE, Max(1, Min(255, args[1])))

\* maxspeed was set to 999999 and 60000 was sent with a warning
C13_Witness ==
    /\ op = "maxspeed.setter" /\ phase = "ready" /\ args = <<999999>>
    /\ Wrote(io, SPEED \o <<" ", "6", "0", "0", "0", "0">>) /\ Warnings = 1

(***************************************************************************)
(* C14.                                                                    *)
(***************************************************************************)
\* C14: when the WZ reply does not parse as an integer (non-numeric, empty,
\* or none after the timeout) get_position warns, raises nothing and leaves
\* the cached position and the dirty flag as they were.
C14_FailedReadWarns ==
    [][(op' = "get_position" /\ phase = "ready"
            /\ ~(Len(replies') = 1 /\ replies'[1] # <<>> /\ IsInt(replies'[1][1]))) =>
           /\ exc' = ""
           /\ \E i \in 1..Len(log') : log'[i].level = "warning"
           /\ _pos' = _pos
           /\ _moved_since_last_read' = _moved_since_last_read]_vars

(***************************************************************************)
(* C15.                                                                    *)
(***************************************************************************)
\* C15: the read of pos that follows a reset() is a live WZ read.
C15_ResetMakesCacheStale ==
    [][(phase = "ready" /\ op = "reset" /\ exc = "" /\ op' = "pos") => Wrote(io', WZ)]_vars

(***************************************************************************)
(* C16.                                                                    *)
(***************************************************************************)
MoveReads == {"absmove_read", "relmove_read"}

\* the position a WZ reply stands for, nothing when it stands for none
Parsed(rs, i, units) ==
    IF i <= Len(rs) /\ rs[i] # <<>> /\ IsInt(rs[i][1]) /\ units # <<>>
    THEN <<(IntVal(rs[i][1]) * 1000) \div units[1]>> ELSE <<>>

StageWarned(l) == \E i \in 1..Len(l) : l[i].level = "warning" /\ l[i].msg = STAGE_DID_NOT_MOVE

\* C16: absmove_read and relmove_read obtain the position before the move
\* (from the cache when it is clean, by a read when it is not), issue the
\* move, read the position after the move from the device, return that
\* position, and warn that the stage did not move exactly when the two
\* positions are equal.
C16_ReadAfterMove ==
    [][(op' \in MoveReads /\ phase = "ready") =>
           LET k == IF Dirty THEN 3 ELSE 2
               posBefore == IF Dirty THEN Parsed(replies', 1, _units_per_um) ELSE _pos
               posAfter == Parsed(replies', k, _units_per_um)
           IN  /\ exc' = ""
               /\ Len(Written(io')) = k
               /\ Written(io')[k] = Cmd(WZ)
               /\ posAfter # <<>>
               /\ ret' = posAfter
               /\ StageWarned(log') <=> (posBefore = posAfter)]_vars

(***************************************************************************)
(* C17.                                                                    *)
(***************************************************************************)
\* C17: after construction no operation raises because of the shape of a
\* reply (int() of a reply that is no number, or of no reply).
C17_NoRaiseOnReplyShape ==
    (phase = "ready" /\ op # "__init__") => exc \notin {"TypeError", "ValueError"}

(***************************************************************************)
(* C18.                                                                    *)
(***************************************************************************)
\* the call, when it wrote at all, wrote exactly this command
Sends(name, command) == (op = name /\ io # <<>>) => Written(io) = <<Cmd(command)>>

\* the decimal device units of the um the call was given
ArgUnits == Str(Round(args[1] * _units_per_um[1], 1000))

\* C18: halt sends HALT, reset RESET, zero ZERO, the speed and slope
\* accessors SPEED, MINSPEED and RAMPSLOPE (the setters with a decimal
\* integer), and absmove, relmove and redefine_position MZ, RZ and HZ with
\* round(um * unitsPerMicrometer) in decimal.
C18_CommandTokens ==
    /\ Sends("halt", <<"H", "A", "L", "T">>)
    /\ Sends("reset", <<"R", "E", "S", "E", "T">>)
    /\ Sends("zero", <<"Z", "E", "R", "O">>)
    /\ Sends("maxspeed", <<"S", "P", "E", "E", "D">>)
    /\ Sends("minspeed", <<"M", "I", "N", "S", "P", "E", "E", "D">>)
    /\ Sends("rampslope", <<"R", "A", "M", "P", "S", "L", "O", "P", "E">>)
    /\ Sends("maxspeed.setter",
             <<"S", "P", "E", "E", "D", " ">> \o Str(Max(50, Min(60000, args[1]))))
    /\ Sends("minspeed.setter",
             <<"M", "I", "N", "S", "P", "E", "E", "D", " ">>
                 \o Str(Max(50, Min(60000, args[1]))))
    /\ Sends("rampslope.setter",
             <<"R", "A", "M", "P", "S", "L", "O", "P", "E", " ">>
                 \o Str(Max(1, Min(255, args[1]))))
    /\ Sends("absmove", <<"M", "Z", " ">> \o ArgUnits)
    /\ Sends("relmove", <<"R", "Z", " ">> \o ArgUnits)
    /\ Sends("redefine_position", <<"H", "Z", " ">> \o ArgUnits)

(***************************************************************************)
(* C19.                                                                    *)
(***************************************************************************)
\* the operations that are one exchange with the device
SingleOps ==
    {"absmove", "relmove", "get_position", "halt", "reset", "zero", "redefine_position",
     "maxspeed", "maxspeed.setter", "minspeed", "minspeed.setter",
     "rampslope", "rampslope.setter"}

\* the operations that format a position with the unit scale before they write
ScaledOps == {"absmove", "relmove", "redefine_position"}

\* every write of the call follows a reset of the input buffer and is followed
\* by the read of its reply, which ended on the terminator or on the timeout,
\* before anything else is written
OneAtATime(evs) ==
    \A i \in 1..Len(evs) :
        evs[i].k = "write" =>
            /\ i > 1 /\ evs[i - 1].k = "reset_input_buffer"
            /\ i < Len(evs) /\ evs[i + 1].k = "read"
            /\ \/ i + 2 <= Len(evs) /\ evs[i + 2].k = "timeout"
               \/ /\ evs[i + 1].data # <<>>
                  /\ evs[i + 1].data[Len(evs[i + 1].data)] = CR
                  /\ i + 2 <= Len(evs) => evs[i + 2].k = "reset_input_buffer"

Stored == IF op = "zero" THEN <<0>> ELSE <<args[1]>>

====
